---------------------------- MODULE Spec2Model ----------------------------
(***************************************************************************)
(* EV charger placement as a QUBO: a model of the two scripts              *)
(*   demo_numpy.py  (command line -> scenario -> build_qubo_vectorized ->  *)
(*                   solver -> decode -> image), and                       *)
(*   demo.py        (fixed scenario -> BQM filled by index loops ->        *)
(*                   sampler -> decode -> distance report -> image).       *)
(*                                                                         *)
(* Numbers.  The code works in floating point with the weights 4n, n/3,    *)
(* 1.7n, n^3 (demo_numpy.py) and 2N, N/3, 0.6N, N^2 (demo.py) and with     *)
(* means over the POIs and the chargers.  The model keeps every            *)
(* coefficient exactly, as an integer in units of 1/(30 * P * C), where P  *)
(* and C are the numbers of POIs and of existing chargers: a weight is     *)
(* held in units of 1/30 and a distance (or a mean of distances) in units  *)
(* of 1/(P*C).  Rounding is therefore not modelled.                        *)
(*                                                                         *)
(* Indices.  Python's index i is position i+1 of a TLA+ sequence.          *)
(*                                                                         *)
(* demo.py's scenario is fixed in the source (a 14 x 15 grid, 3 POIs, 4    *)
(* chargers, 2 new chargers).  That grid cannot be enumerated, so a run of *)
(* demo.py draws its grid and counts from the same bounded space as        *)
(* demo_numpy.py, restricted to the values for which, as with the fixed    *)
(* ones, both samples succeed and candidates remain.                       *)
(***************************************************************************)
EXTENDS Integers, Sequences, FiniteSets, TLC

VARIABLES
    prog,                    \* which script runs: "demo_numpy" or "demo"
    pc,                      \* position of the run in the script
    args,                    \* parsed command line / scenario parameters
    G,                       \* nodes of the grid graph
    pois,                    \* sampled points of interest
    charging_stations,       \* sampled existing chargers
    potential_new_cs_nodes,  \* candidate sequence
    nodes_array,             \* the builder's copy of the candidate sequence
    Q,                       \* QUBO matrix under construction (demo_numpy.py)
    bqm,                     \* BQM under construction (demo.py)
    response,                \* what the solver returned
    new_charger_nodes,       \* decoded new chargers
    calls,                   \* functions of demo_numpy.py invoked so far
    stdout,                  \* messages printed
    exit_status,             \* status of an explicit exit, or "none"
    error,                   \* unhandled exception that ended the run, or "none"
    image                    \* whether map.png was written

vars == <<prog, pc, args, G, pois, charging_stations, potential_new_cs_nodes,
          nodes_array, Q, bqm, response, new_charger_nodes, calls, stdout,
          exit_status, error, image>>

---------------------------------------------------------------------------
\* Bounds of the model.
MaxCells == 4
MaxWidth == 2
MaxPoi == 1
MaxCs == 2
MaxNew == 2

\* Command lines tried: sizes from 0 (a width up to MaxWidth, and a height
\* that keeps the grid within MaxCells nodes), counts from -1 (argparse's
\* type=int accepts any integer).  Negative sizes are left out: what the grid
\* generator does with them depends on the library version.
ArgSpace ==
    { a \in [width : 0..MaxWidth, height : 0..MaxCells,
             poi : (0 - 1)..MaxPoi, chargers : (0 - 1)..MaxCs,
             new_chargers : (0 - 1)..MaxNew] :
        a.width * a.height <= MaxCells }

\* Scenarios a run of demo.py is tried on (see the header).
DemoArgSpace ==
    { a \in ArgSpace :
        /\ a.width >= 1 /\ a.height >= 1
        /\ a.poi >= 1 /\ a.poi <= a.width * a.height
        /\ a.chargers >= 1 /\ a.chargers < a.width * a.height
        /\ a.new_chargers >= 1
        /\ a.chargers + a.new_chargers <= a.width * a.height }

---------------------------------------------------------------------------
\* Helpers.

\* All orders in which the elements of S can be listed.
Orderings(S) ==
    { s \in [1..Cardinality(S) -> S] :
        \A i, j \in 1..Cardinality(S) : i # j => s[i] # s[j] }

Range(s) == { s[i] : i \in 1..Len(s) }

\* nx.grid_2d_graph(w, h): nodes (x, y), 0 <= x < w, 0 <= y < h.
GridNodes(w, h) == (0..(w - 1)) \X (0..(h - 1))

\* random.sample(population, k): the k-subsets; none when it raises ValueError.
Samples(population, k) ==
    IF k < 0 \/ k > Cardinality(population) THEN {}
    ELSE { S \in SUBSET population : Cardinality(S) = k }

\* Mutant of Candidates: the set difference forgotten.
CandidatesAllNodes(nodes, chargers) == Orderings(nodes)

\* list(set(nodes) - set(charging_stations)): the nodes that hold no charger,
\* in the order the set happens to be listed in: any order.
Candidates(nodes, chargers) == Orderings(nodes \ chargers)

---------------------------------------------------------------------------
\* Distances.

\* np.sum(diff**2, axis=2): the squared Euclidean distance of two nodes.
SqDist(a, b) ==
    (a[1] - b[1]) * (a[1] - b[1]) + (a[2] - b[2]) * (a[2] - b[2])

\* demo.py's expanded form of the squared distance (constraint 1).
DistExpanded(c, l) ==
    c[1] * c[1] - 2 * c[1] * l[1] + l[1] * l[1]
      + c[2] * c[2] - 2 * c[2] * l[2] + l[2] * l[2]

\* demo.py's expanded form of the negated squared distance (constraints 2, 3).
NegDistExpanded(c, l) ==
    (0 - 1) * c[1] * c[1] + 2 * c[1] * l[1] - l[1] * l[1]
      - c[2] * c[2] + 2 * c[2] * l[2] - l[2] * l[2]

\* The unit in which distances and their means are held: 1/(P*C); an empty
\* set has no mean and contributes no factor.
Unit(P, C) == (IF P = 0 THEN 1 ELSE P) * (IF C = 0 THEN 1 ELSE C)

RECURSIVE SumSqDist(_, _)
\* Sum over locs of the squared distance from cand.
SumSqDist(cand, locs) ==
    IF locs = {} THEN 0
    ELSE LET loc == CHOOSE l \in locs : TRUE
         IN  SqDist(cand, loc) + SumSqDist(cand, locs \ {loc})

\* np.mean(dists, axis=1) for one candidate, in units of 1/unit.
MeanDist(cand, locs, unit) ==
    (SumSqDist(cand, locs) * unit) \div Cardinality(locs)

---------------------------------------------------------------------------
\* build_qubo_vectorized (demo_numpy.py).  Weights in units of 1/30.

Gamma1(n) == 120 * n            \* n * 4.0
Gamma2(n) == 10 * n             \* n / 3.0
Gamma3(n) == 51 * n             \* n * 1.7
Gamma4(n) == 30 * n * n * n     \* n**3

\* np.zeros((n, n))
ZeroMatrix(n) == [ij \in (1..n) \X (1..n) |-> 0]

\* Constraint 1: Q[diag] += avg_dist * gamma1
AddConstraint1(Qm, nodes, ps, unit) ==
    [ij \in DOMAIN Qm |->
        IF ij[1] = ij[2]
        THEN Qm[ij] + MeanDist(nodes[ij[1]], ps, unit) * Gamma1(Len(nodes))
        ELSE Qm[ij]]

\* Constraint 2: Q[diag] += -avg_dist_cs * gamma2
AddConstraint2(Qm, nodes, cs, unit) ==
    [ij \in DOMAIN Qm |->
        IF ij[1] = ij[2]
        THEN Qm[ij] + (0 - MeanDist(nodes[ij[1]], cs, unit)) * Gamma2(Len(nodes))
        ELSE Qm[ij]]

\* Mutant of AddConstraint3: the separation term written to the upper triangle
\* only.
AddConstraint3UpperOnly(Qm, nodes, unit) ==
    [ij \in DOMAIN Qm |->
        IF ij[1] < ij[2]
        THEN Qm[ij] + (0 - Gamma3(Len(nodes))) * (SqDist(nodes[ij[1]], nodes[ij[2]]) * unit)
        ELSE Qm[ij]]

\* Constraint 3: Q += -gamma3 * dists_candidates (every entry, the diagonal's
\* distance being 0).
AddConstraint3(Qm, nodes, unit) ==
    [ij \in DOMAIN Qm |->
        Qm[ij] + (0 - Gamma3(Len(nodes))) * (SqDist(nodes[ij[1]], nodes[ij[2]]) * unit)]

\* Constraint 4: Q[diag] += gamma4 * (1 - 2k); Q += 2 * gamma4 * off_diag
AddConstraint4(Qm, n, k, unit) ==
    [ij \in DOMAIN Qm |->
        IF ij[1] = ij[2]
        THEN Qm[ij] + Gamma4(n) * (1 - 2 * k) * unit
        ELSE Qm[ij] + 2 * Gamma4(n) * unit]

\* The matrix build_qubo_vectorized returns.
BuildQuboVectorized(nodes, ps, cs, k) ==
    LET u == Unit(Cardinality(ps), Cardinality(cs))
        n == Len(nodes)
    IN  AddConstraint4(
            AddConstraint3(
                AddConstraint2(
                    AddConstraint1(ZeroMatrix(n), nodes, ps, u),
                    nodes, cs, u),
                nodes, u),
            n, k, u)

---------------------------------------------------------------------------
\* The BQM of demo.py, filled by index loops.  Weights in units of 1/30;
\* len(G.nodes()) is the number N of grid nodes, not of candidates.

LoopGamma1(N) == 60 * N         \* len(G.nodes()) * 2
LoopGamma2(N) == 10 * N         \* len(G.nodes()) / 3
LoopGamma3(N) == 18 * N         \* len(G.nodes()) * 0.6
LoopGamma4(N) == 30 * N * N     \* len(G.nodes()) ** 2

\* The unordered pairs i < j of range(n): the interactions of the BQM.
Pairs(n) == { ij \in (1..n) \X (1..n) : ij[1] < ij[2] }

\* dimod.AdjVectorBQM(n, 'BINARY'): n variables, no bias, no interaction (an
\* absent interaction is held as 0).
EmptyBQM(n) ==
    [linear |-> [i \in 1..n |-> 0], quadratic |-> [ij \in Pairs(n) |-> 0], offset |-> 0]

RECURSIVE AveDistPoi(_, _, _, _)
\* Constraint 1's inner loop: ave_dist += dist / num_cs, for loc in pois.
AveDistPoi(cand_loc, locs, num_cs, unit) ==
    IF locs = {} THEN 0
    ELSE LET loc == CHOOSE l \in locs : TRUE
         IN  (DistExpanded(cand_loc, loc) * unit) \div num_cs
               + AveDistPoi(cand_loc, locs \ {loc}, num_cs, unit)

RECURSIVE AveDistCs(_, _, _, _)
\* Constraint 2's inner loop: ave_dist += dist / num_poi, for loc in
\* charging_stations.
AveDistCs(cand_loc, locs, num_poi, unit) ==
    IF locs = {} THEN 0
    ELSE LET loc == CHOOSE l \in locs : TRUE
         IN  (NegDistExpanded(cand_loc, loc) * unit) \div num_poi
               + AveDistCs(cand_loc, locs \ {loc}, num_poi, unit)

\* Constraint 1: bqm.linear[i] = ave_dist * gamma1
LoopConstraint1(b, nodes, ps, num_cs, N, unit) ==
    [b EXCEPT !.linear =
        [i \in DOMAIN b.linear |->
            AveDistPoi(nodes[i], ps, num_cs, unit) * LoopGamma1(N)]]

\* Constraint 2: bqm.linear[i] += ave_dist * gamma2
LoopConstraint2(b, nodes, cs, num_poi, N, unit) ==
    [b EXCEPT !.linear =
        [i \in DOMAIN b.linear |->
            b.linear[i] + AveDistCs(nodes[i], cs, num_poi, unit) * LoopGamma2(N)]]

\* Constraint 3: bqm.add_interaction(i, j, dist * gamma3), j > i
LoopConstraint3(b, nodes, N, unit) ==
    [b EXCEPT !.quadratic =
        [ij \in DOMAIN b.quadratic |->
            b.quadratic[ij]
              + (NegDistExpanded(nodes[ij[1]], nodes[ij[2]]) * unit) * LoopGamma3(N)]]

\* dimod.generators.combinations(variables, k, strength): the BQM of
\* strength * (sum of the variables - k)^2.
Combinations(n, k, strength) ==
    [linear    |-> [i \in 1..n |-> strength * (1 - 2 * k)],
     quadratic |-> [ij \in Pairs(n) |-> 2 * strength],
     offset    |-> strength * k * k]

\* Constraint 4: bqm.update(combinations(bqm.variables, num_new_cs, gamma4))
LoopConstraint4(b, k, N, unit) ==
    LET c == Combinations(Len(b.linear), k, LoopGamma4(N) * unit)
    IN  [linear    |-> [i \in DOMAIN b.linear |-> b.linear[i] + c.linear[i]],
         quadratic |-> [ij \in DOMAIN b.quadratic |-> b.quadratic[ij] + c.quadratic[ij]],
         offset    |-> b.offset + c.offset]

\* The BQM demo.py hands to the sampler.
BuildBqmLoops(nodes, ps, cs, k, N) ==
    LET u == Unit(Cardinality(ps), Cardinality(cs))
    IN  LoopConstraint4(
            LoopConstraint3(
                LoopConstraint2(
                    LoopConstraint1(EmptyBQM(Len(nodes)), nodes, ps, Cardinality(cs), N, u),
                    nodes, cs, Cardinality(ps), N, u),
                nodes, N, u),
            k, N, u)

---------------------------------------------------------------------------
\* The solver's response and its decoding.

\* Bit lists of length n.
BitLists(n) == [1..n -> {0, 1}]

\* A response: whether it is a mapping at all, whether it holds the solver's
\* named sub-object, whether that holds a configuration, and the configuration.
Response(m, s, c, bits) ==
    [is_mapping |-> m, has_solver |-> s, has_configuration |-> c, configuration |-> bits]

NoResponse == Response(FALSE, FALSE, FALSE, <<>>)

\* What solver.solve(Q) is tried with: every bit list of the matrix's size, a
\* bit list one longer that selects the position past the end, and the
\* malformed shapes: not a mapping, a mapping without the sub-object (the empty
\* mapping too), a sub-object without the configuration.
Responses(n) ==
    { Response(TRUE, TRUE, TRUE, bits) : bits \in BitLists(n) }
      \cup { Response(TRUE, TRUE, TRUE, [i \in 1..(n + 1) |-> IF i = n + 1 THEN 1 ELSE 0]),
             Response(TRUE, TRUE, FALSE, <<>>),
             Response(TRUE, FALSE, FALSE, <<>>),
             NoResponse }

\* response.get('QdeepHybridSolver', {}): the sub-object, or an empty mapping.
GetSolution(r) ==
    IF r.has_solver THEN r ELSE Response(TRUE, TRUE, FALSE, <<>>)

\* Mutant of GetConfiguration: a default that is not the empty list.
GetConfigurationWrongDefault(solution) ==
    IF solution.has_configuration THEN solution.configuration ELSE <<1>>

\* solution.get('configuration', []): the bit list, or an empty list.
GetConfiguration(solution) ==
    IF solution.has_configuration THEN solution.configuration ELSE <<>>

\* Whether the comprehension indexes past the end of the candidates.
IndexPastEnd(config, cands) ==
    \E i \in 1..Len(config) : config[i] = 1 /\ i > Len(cands)

RECURSIVE DecodeFrom(_, _, _)
\* [cands[i] for i, bit in enumerate(config) if bit == 1], from position i on.
DecodeFrom(config, cands, i) ==
    IF i > Len(config) THEN <<>>
    ELSE IF config[i] = 1
         THEN <<cands[i]>> \o DecodeFrom(config, cands, i + 1)
         ELSE DecodeFrom(config, cands, i + 1)

\* Mutant of Decode: the candidates indexed from the other end.
DecodeReversed(config, cands) ==
    DecodeFrom(config, [i \in 1..Len(cands) |-> cands[Len(cands) + 1 - i]], 1)

\* new_charger_nodes of demo_numpy.py.
Decode(config, cands) == DecodeFrom(config, cands, 1)

\* new_charging_nodes of demo.py:
\* [potential_new_cs_nodes[k] for k, v in ss.items() if v == 1].
DecodeSample(ss, cands) == DecodeFrom(ss, cands, 1)

---------------------------------------------------------------------------
\* The runs.

Init ==
    /\ \/ prog = "demo_numpy" /\ args \in ArgSpace
       \/ prog = "demo" /\ args \in DemoArgSpace
    /\ pc = "start"
    /\ G = {}
    /\ pois = {}
    /\ charging_stations = {}
    /\ potential_new_cs_nodes = <<>>
    /\ nodes_array = <<>>
    /\ Q = ZeroMatrix(0)
    /\ bqm = EmptyBQM(0)
    /\ response = NoResponse
    /\ new_charger_nodes = <<>>
    /\ calls = {}
    /\ stdout = <<>>
    /\ exit_status = "none"
    /\ error = "none"
    /\ image = FALSE

\* An unhandled exception ends the run.
Raise(e) == pc' = "failed" /\ error' = e

\* Mutant of Infeasible: >= in place of >.
InfeasibleOffByOne(a) ==
    a.poi >= a.width * a.height \/ (a.chargers + a.new_chargers) >= a.width * a.height

\* Mutant of Infeasible: the new chargers left out of the second comparison.
InfeasibleIgnoresNew(a) ==
    a.poi > a.width * a.height \/ a.chargers > a.width * a.height

\* The check of read_in_args.
Infeasible(a) ==
    a.poi > a.width * a.height \/ (a.chargers + a.new_chargers) > a.width * a.height

\* read_in_args
ReadInArgs ==
    /\ prog = "demo_numpy" /\ pc = "start"
    /\ calls' = calls \cup {"read_in_args"}
    /\ IF Infeasible(args)
       THEN /\ stdout' = Append(stdout, "Grid size is not large enough for scenario.")
            /\ exit_status' = 0
            /\ pc' = "exited"
       ELSE /\ pc' = "set_up_scenario"
            /\ UNCHANGED <<stdout, exit_status>>
    /\ UNCHANGED <<prog, args, G, pois, charging_stations, potential_new_cs_nodes,
                   nodes_array, Q, bqm, response, new_charger_nodes, error, image>>

\* set_up_scenario
SetUpScenario ==
    /\ prog = "demo_numpy" /\ pc = "set_up_scenario"
    /\ calls' = calls \cup {"set_up_scenario"}
    /\ LET nodes == GridNodes(args.width, args.height)
       IN  \/ /\ Samples(nodes, args.poi) = {} \/ Samples(nodes, args.chargers) = {}
              /\ Raise("ValueError")
              /\ UNCHANGED <<G, pois, charging_stations, potential_new_cs_nodes>>
           \/ /\ G' = nodes
              /\ pois' \in Samples(nodes, args.poi)
              /\ charging_stations' \in Samples(nodes, args.chargers)
              /\ potential_new_cs_nodes' \in Candidates(nodes, charging_stations')
              /\ pc' = "build"
              /\ UNCHANGED error
    /\ UNCHANGED <<prog, args, nodes_array, Q, bqm, response, new_charger_nodes,
                   stdout, exit_status, image>>

\* build_qubo_vectorized, up to Q = np.zeros((n, n))
BuildInit ==
    /\ prog = "demo_numpy" /\ pc = "build"
    /\ calls' = calls \cup {"build_qubo_vectorized"}
    /\ nodes_array' = potential_new_cs_nodes
    /\ Q' = ZeroMatrix(Len(potential_new_cs_nodes))
    /\ pc' = "c1"
    /\ UNCHANGED <<prog, args, G, pois, charging_stations, potential_new_cs_nodes,
                   bqm, response, new_charger_nodes, stdout, exit_status, error, image>>

\* Constraint 1.  An empty candidate list or an empty POI list makes a
\* one-dimensional array, and indexing it with [:, None, :] raises.
Constraint1 ==
    /\ prog = "demo_numpy" /\ pc = "c1"
    /\ IF Len(nodes_array) = 0 \/ pois = {}
       THEN Raise("IndexError") /\ UNCHANGED Q
       ELSE /\ Q' = AddConstraint1(Q, nodes_array, pois,
                        Unit(Cardinality(pois), Cardinality(charging_stations)))
            /\ pc' = "c2"
            /\ UNCHANGED error
    /\ UNCHANGED <<prog, args, G, pois, charging_stations, potential_new_cs_nodes,
                   nodes_array, bqm, response, new_charger_nodes, calls, stdout,
                   exit_status, image>>

\* Constraint 2.  An empty charger list raises as above.
Constraint2 ==
    /\ prog = "demo_numpy" /\ pc = "c2"
    /\ IF charging_stations = {}
       THEN Raise("IndexError") /\ UNCHANGED Q
       ELSE /\ Q' = AddConstraint2(Q, nodes_array, charging_stations,
                        Unit(Cardinality(pois), Cardinality(charging_stations)))
            /\ pc' = "c3"
            /\ UNCHANGED error
    /\ UNCHANGED <<prog, args, G, pois, charging_stations, potential_new_cs_nodes,
                   nodes_array, bqm, response, new_charger_nodes, calls, stdout,
                   exit_status, image>>

\* Constraint 3.
Constraint3 ==
    /\ prog = "demo_numpy" /\ pc = "c3"
    /\ Q' = AddConstraint3(Q, nodes_array,
                Unit(Cardinality(pois), Cardinality(charging_stations)))
    /\ pc' = "c4"
    /\ UNCHANGED <<prog, args, G, pois, charging_stations, potential_new_cs_nodes,
                   nodes_array, bqm, response, new_charger_nodes, calls, stdout,
                   exit_status, error, image>>

\* Constraint 4, and the return of Q.
Constraint4 ==
    /\ prog = "demo_numpy" /\ pc = "c4"
    /\ Q' = AddConstraint4(Q, Len(nodes_array), args.new_chargers,
                Unit(Cardinality(pois), Cardinality(charging_stations)))
    /\ pc' = "run_qubo_solver"
    /\ UNCHANGED <<prog, args, G, pois, charging_stations, potential_new_cs_nodes,
                   nodes_array, bqm, response, new_charger_nodes, calls, stdout,
                   exit_status, error, image>>

\* run_qubo_solver: the remote call answers, or fails and is not caught.
RunQuboSolver ==
    /\ prog = "demo_numpy" /\ pc = "run_qubo_solver"
    /\ calls' = calls \cup {"run_qubo_solver"}
    /\ \/ /\ response' \in Responses(Len(nodes_array))
          /\ pc' = "process"
          /\ UNCHANGED error
       \/ /\ Raise("SolverError")
          /\ UNCHANGED response
    /\ UNCHANGED <<prog, args, G, pois, charging_stations, potential_new_cs_nodes,
                   nodes_array, Q, bqm, new_charger_nodes, stdout, exit_status, image>>

\* __main__, from response.get(...) to the list of new chargers.
ProcessResponse ==
    /\ prog = "demo_numpy" /\ pc = "process"
    /\ IF ~response.is_mapping
       THEN Raise("AttributeError") /\ UNCHANGED new_charger_nodes
       ELSE LET config == GetConfiguration(GetSolution(response))
            IN  IF IndexPastEnd(config, potential_new_cs_nodes)
                THEN Raise("IndexError") /\ UNCHANGED new_charger_nodes
                ELSE /\ new_charger_nodes' = Decode(config, potential_new_cs_nodes)
                     /\ pc' = "save"
                     /\ UNCHANGED error
    /\ UNCHANGED <<prog, args, G, pois, charging_stations, potential_new_cs_nodes,
                   nodes_array, Q, bqm, response, calls, stdout, exit_status, image>>

\* __main__, the report and save_output_image.
SaveOutputImage ==
    /\ prog = "demo_numpy" /\ pc = "save"
    /\ calls' = calls \cup {"save_output_image"}
    /\ stdout' = Append(stdout, "Hybrid Solver Results:")
    /\ image' = TRUE
    /\ pc' = "done"
    /\ UNCHANGED <<prog, args, G, pois, charging_stations, potential_new_cs_nodes,
                   nodes_array, Q, bqm, response, new_charger_nodes, exit_status, error>>

\* demo.py: the grid, both samples, the candidates and the empty BQM.
DemoScenario ==
    /\ prog = "demo" /\ pc = "start"
    /\ LET nodes == GridNodes(args.width, args.height)
       IN  /\ G' = nodes
           /\ pois' \in Samples(nodes, args.poi)
           /\ charging_stations' \in Samples(nodes, args.chargers)
           /\ potential_new_cs_nodes' \in Candidates(nodes, charging_stations')
    /\ bqm' = EmptyBQM(Len(potential_new_cs_nodes'))
    /\ pc' = "c1"
    /\ UNCHANGED <<prog, args, nodes_array, Q, response, new_charger_nodes, calls,
                   stdout, exit_status, error, image>>

\* demo.py, constraint 1 (num_cs is the charger count of the scenario).
DemoConstraint1 ==
    /\ prog = "demo" /\ pc = "c1"
    /\ bqm' = LoopConstraint1(bqm, potential_new_cs_nodes, pois, args.chargers,
                  Cardinality(G), Unit(Cardinality(pois), Cardinality(charging_stations)))
    /\ pc' = "c2"
    /\ UNCHANGED <<prog, args, G, pois, charging_stations, potential_new_cs_nodes,
                   nodes_array, Q, response, new_charger_nodes, calls, stdout,
                   exit_status, error, image>>

\* demo.py, constraint 2 (num_poi is the POI count of the scenario).
DemoConstraint2 ==
    /\ prog = "demo" /\ pc = "c2"
    /\ bqm' = LoopConstraint2(bqm, potential_new_cs_nodes, charging_stations, args.poi,
                  Cardinality(G), Unit(Cardinality(pois), Cardinality(charging_stations)))
    /\ pc' = "c3"
    /\ UNCHANGED <<prog, args, G, pois, charging_stations, potential_new_cs_nodes,
                   nodes_array, Q, response, new_charger_nodes, calls, stdout,
                   exit_status, error, image>>

\* demo.py, constraint 3.
DemoConstraint3 ==
    /\ prog = "demo" /\ pc = "c3"
    /\ bqm' = LoopConstraint3(bqm, potential_new_cs_nodes, Cardinality(G),
                  Unit(Cardinality(pois), Cardinality(charging_stations)))
    /\ pc' = "c4"
    /\ UNCHANGED <<prog, args, G, pois, charging_stations, potential_new_cs_nodes,
                   nodes_array, Q, response, new_charger_nodes, calls, stdout,
                   exit_status, error, image>>

\* demo.py, constraint 4.
DemoConstraint4 ==
    /\ prog = "demo" /\ pc = "c4"
    /\ bqm' = LoopConstraint4(bqm, args.new_chargers, Cardinality(G),
                  Unit(Cardinality(pois), Cardinality(charging_stations)))
    /\ pc' = "sample"
    /\ UNCHANGED <<prog, args, G, pois, charging_stations, potential_new_cs_nodes,
                   nodes_array, Q, response, new_charger_nodes, calls, stdout,
                   exit_status, error, image>>

\* demo.py: sampler.sample(bqm) and sampleset.first.sample, one bit per
\* variable of the BQM; or the remote call fails and is not caught.
DemoSample ==
    /\ prog = "demo" /\ pc = "sample"
    /\ \/ /\ \E ss \in BitLists(Len(potential_new_cs_nodes)) :
                response' = Response(TRUE, TRUE, TRUE, ss)
          /\ pc' = "process"
          /\ UNCHANGED error
       \/ /\ Raise("SolverError")
          /\ UNCHANGED response
    /\ UNCHANGED <<prog, args, G, pois, charging_stations, potential_new_cs_nodes,
                   nodes_array, Q, bqm, new_charger_nodes, calls, stdout, exit_status,
                   image>>

\* demo.py: new_charging_nodes and its print.
DemoDecode ==
    /\ prog = "demo" /\ pc = "process"
    /\ new_charger_nodes' = DecodeSample(response.configuration, potential_new_cs_nodes)
    /\ stdout' = Append(stdout, "New charging locations:")
    /\ pc' = "distances"
    /\ UNCHANGED <<prog, args, G, pois, charging_stations, potential_new_cs_nodes,
                   nodes_array, Q, bqm, response, calls, exit_status, error, image>>

\* demo.py: the distance report reads new_charging_nodes[0] and [1] (in the
\* loop over the POIs, of which there is at least one).
DemoDistances ==
    /\ prog = "demo" /\ pc = "distances"
    /\ IF Len(new_charger_nodes) < 2
       THEN Raise("IndexError") /\ UNCHANGED stdout
       ELSE /\ stdout' = Append(stdout, "Distance between new chargers:")
            /\ pc' = "save"
            /\ UNCHANGED error
    /\ UNCHANGED <<prog, args, G, pois, charging_stations, potential_new_cs_nodes,
                   nodes_array, Q, bqm, response, new_charger_nodes, calls,
                   exit_status, image>>

\* demo.py: the drawing and plt.savefig("map.png").
DemoSaveImage ==
    /\ prog = "demo" /\ pc = "save"
    /\ image' = TRUE
    /\ pc' = "done"
    /\ UNCHANGED <<prog, args, G, pois, charging_stations, potential_new_cs_nodes,
                   nodes_array, Q, bqm, response, new_charger_nodes, calls, stdout,
                   exit_status, error>>

Next ==
    \/ ReadInArgs
    \/ SetUpScenario
    \/ BuildInit
    \/ Constraint1
    \/ Constraint2
    \/ Constraint3
    \/ Constraint4
    \/ RunQuboSolver
    \/ ProcessResponse
    \/ SaveOutputImage
    \/ DemoScenario
    \/ DemoConstraint1
    \/ DemoConstraint2
    \/ DemoConstraint3
    \/ DemoConstraint4
    \/ DemoSample
    \/ DemoDecode
    \/ DemoDistances
    \/ DemoSaveImage

Spec == Init /\ [][Next]_vars

---------------------------------------------------------------------------
\* Definitions the properties are stated with.

n == Len(potential_new_cs_nodes)
k == args.new_chargers
P == Cardinality(pois)
C == Cardinality(charging_stations)
Cells == args.width * args.height

\* Number of ones of a bit list.
Ones(x) == Cardinality({ i \in 1..Len(x) : x[i] = 1 })

RECURSIVE SumEntries(_, _, _)
\* Sum over the entries ij in S of Qm[ij] * x[i] * x[j].
SumEntries(Qm, x, S) ==
    IF S = {} THEN 0
    ELSE LET ij == CHOOSE e \in S : TRUE
         IN  Qm[ij] * x[ij[1]] * x[ij[2]] + SumEntries(Qm, x, S \ {ij})

\* The QUBO objective: sum over i, j of Qm[i][j] * x[i] * x[j].
Objective(Qm, x) == SumEntries(Qm, x, DOMAIN Qm)

\* demo_numpy.py holds the complete matrix.
QBuilt == prog = "demo_numpy" /\ pc = "run_qubo_solver"

\* demo.py holds the complete BQM.
BqmBuilt == prog = "demo" /\ pc = "sample"

\* demo_numpy.py has the solver's answer in hand.
Received ==
    /\ prog = "demo_numpy"
    /\ "run_qubo_solver" \in calls
    /\ pc \in {"process", "save", "done", "failed"}
    /\ error # "SolverError"

\* A scenario has been set up.
ScenarioProduced ==
    \/ prog = "demo_numpy" /\ "set_up_scenario" \in calls
         /\ ~(pc = "failed" /\ error = "ValueError")
    \/ prog = "demo" /\ pc # "start"

\* The list of new chargers has been decoded.
Decoded ==
    \/ prog = "demo_numpy" /\ pc \in {"save", "done"}
    \/ prog = "demo" /\ pc \in {"distances", "save", "done"}

---------------------------------------------------------------------------
\* C1: for the same candidates, POIs, chargers and k, the loops of demo.py and
\* build_qubo_vectorized give the same coefficients: the same linear/diagonal
\* value for every index and the same interaction value for every pair.
LoopEqualsVectorized ==
    BqmBuilt =>
        LET Qv == BuildQuboVectorized(potential_new_cs_nodes, pois, charging_stations, k)
        IN  /\ \A i \in 1..n : bqm.linear[i] = Qv[<<i, i>>]
            /\ \A ij \in Pairs(n) :
                  /\ bqm.quadratic[ij] = Qv[ij]
                  /\ bqm.quadratic[ij] = Qv[<<ij[2], ij[1]>>]

\* C2: the matrix of build_qubo_vectorized is symmetric, after each term and
\* when it is returned.
QSymmetric ==
    prog = "demo_numpy" =>
        \A ij \in DOMAIN Q : Q[ij] = Q[<<ij[2], ij[1]>>]

\* C2's case: a returned matrix with two candidates at least and an
\* off-diagonal entry that the separation term has changed.
QSymmetricWitness ==
    /\ QBuilt
    /\ n >= 2
    /\ \E ij \in DOMAIN Q :
          /\ ij[1] # ij[2]
          /\ Q[ij] # 2 * Gamma4(n) * Unit(P, C)

\* C3: the entries term 4 adds give, for every bit vector, an objective of 0
\* exactly when k bits are set and a strictly positive one otherwise.
Term4ZeroExactlyAtK ==
    (QBuilt /\ k >= 0) =>
        LET Q4 == AddConstraint4(ZeroMatrix(n), n, k, Unit(P, C))
        IN  \A x \in BitLists(n) :
               /\ Ones(x) = k => Objective(Q4, x) = 0
               /\ Ones(x) # k => Objective(Q4, x) > 0

\* C4: every bit vector that minimizes the objective of the returned matrix
\* has exactly k bits set (1 <= k <= n).
MinimizersSelectK ==
    (QBuilt /\ 1 <= k /\ k <= n) =>
        \A x \in BitLists(n) :
           (\A y \in BitLists(n) : Objective(Q, x) <= Objective(Q, y)) => Ones(x) = k

\* C5: the decoded list holds exactly the candidates whose bit is 1, in
\* candidate order, each once -- the candidates being those the matrix (the
\* builder's nodes_array) or the BQM was built from.
DecodePreservesMapping ==
    Decoded =>
        LET bits  == response.configuration
            cands == IF prog = "demo_numpy" THEN nodes_array ELSE potential_new_cs_nodes
            sel   == { i \in 1..Len(bits) : bits[i] = 1 }
        IN  /\ Len(new_charger_nodes) = Cardinality(sel)
            /\ \A i \in sel :
                  new_charger_nodes[Cardinality({ m \in sel : m <= i })] = cands[i]

\* C5's case: demo_numpy.py has decoded a bit list of the matrix's size with
\* exactly two ones, the second of them not next to the first.
DecodeWitness ==
    /\ prog = "demo_numpy" /\ pc = "done"
    /\ Len(response.configuration) = Len(nodes_array)
    /\ Ones(response.configuration) = 2
    /\ \E a, b \in 1..Len(nodes_array) :
          /\ a + 1 < b
          /\ response.configuration[a] = 1 /\ response.configuration[b] = 1
          /\ new_charger_nodes = <<nodes_array[a], nodes_array[b]>>

\* C6: in demo_numpy.py, when poi > width*height or chargers + new chargers >
\* width*height the run prints the message and exits with status 0 having
\* called nothing but read_in_args; otherwise read_in_args does not stop it.
InfeasibleExitsEarly ==
    prog = "demo_numpy" =>
        IF args.poi > Cells \/ args.chargers + args.new_chargers > Cells
        THEN /\ pc \in {"start", "exited"}
             /\ calls \subseteq {"read_in_args"}
             /\ pc = "exited" =>
                   /\ stdout = <<"Grid size is not large enough for scenario.">>
                   /\ exit_status = 0
                   /\ error = "none"
                   /\ ~image
        ELSE /\ pc # "exited"
             /\ exit_status = "none"
             /\ pc # "start" => "read_in_args" \in calls

\* C6's case: a run stopped because of the chargers alone (the POIs fit).
InfeasibleWitness ==
    /\ prog = "demo_numpy" /\ pc = "exited"
    /\ args.poi <= Cells
    /\ args.chargers <= Cells
    /\ args.chargers + args.new_chargers > Cells

\* A response that lacks a part: not a mapping, no sub-object, no configuration.
Malformed(r) == ~r.is_mapping \/ ~r.has_solver \/ ~r.has_configuration

CandidatesAreTheNonChargers ==
    ScenarioProduced =>
        /\ \A i \in 1..n : potential_new_cs_nodes[i] \notin charging_stations
        /\ \A node \in GridNodes(args.width, args.height) \ charging_stations :
              Cardinality({ i \in 1..n : potential_new_cs_nodes[i] = node }) = 1
        /\ n = Cells - args.chargers
        /\ Decoded => Range(new_charger_nodes) \cap charging_stations = {}

\* C8's case: a run that decoded a new charger on a POI (POIs stay candidates),
\* chargers being present.
CandidatesWitness ==
    /\ prog = "demo_numpy" /\ pc = "done"
    /\ charging_stations # {}
    /\ \E j \in 1..Len(new_charger_nodes) : new_charger_nodes[j] \in pois

\* C9: in both builders the linear coefficient of candidate i before term 4 is
\* gamma1 * mean over the POIs - gamma2 * mean over the chargers of the squared
\* distance (each sum divided by its own count).  In units of 1/(30*P*C):
\* gamma1 * sumPOI * C - gamma2 * sumCS * P.
LinearIsWeightedMeans ==
    /\ (prog = "demo_numpy" /\ pc \in {"c3", "c4"}) =>
          \A i \in 1..n :
             Q[<<i, i>>] =
                Gamma1(n) * SumSqDist(nodes_array[i], pois) * C
                  - Gamma2(n) * SumSqDist(nodes_array[i], charging_stations) * P
    /\ (prog = "demo" /\ pc \in {"c3", "c4"}) =>
          \A i \in 1..n :
             bqm.linear[i] =
                LoopGamma1(Cardinality(G)) * SumSqDist(potential_new_cs_nodes[i], pois) * C
                  - LoopGamma2(Cardinality(G))
                      * SumSqDist(potential_new_cs_nodes[i], charging_stations) * P

\* The conclusion of C10: both samples fit the grid, set_up_scenario has not
\* failed, and the candidates are at least as many as the new chargers.
WellFormedScenario ==
    /\ args.poi <= Cells
    /\ args.chargers <= Cells
    /\ error # "ValueError"
    /\ pc # "set_up_scenario" => n = Cells - args.chargers /\ n >= k

\* C10 as stated: every integer command line that passes read_in_args gives a
\* well-formed scenario.
AcceptedArgsAreWellFormed ==
    (prog = "demo_numpy" /\ pc \notin {"start", "exited"}) => WellFormedScenario

\* C10 as amended: every command line of non-negative integers that passes
\* read_in_args gives a well-formed scenario.
NonNegativeAcceptedArgsAreWellFormed ==
    (/\ prog = "demo_numpy" /\ pc \notin {"start", "exited"}
     /\ args.width >= 0 /\ args.height >= 0 /\ args.poi >= 0
     /\ args.chargers >= 0 /\ args.new_chargers >= 0) => WellFormedScenario

\* C10's case: a scenario set up with exactly as many candidates as new
\* chargers asked for.
WellFormedWitness ==
    /\ prog = "demo_numpy" /\ pc = "build"
    /\ args.poi >= 1 /\ args.chargers >= 1 /\ args.new_chargers >= 1
    /\ n = k

=============================================================================
